---- MODULE Spec2Model ----
(***************************************************************************)
(* weather_tui: the terminal life cycle, the one-shot forecast fetch, the  *)
(* draw/poll loop of main (src/main.rs) and the series extraction and axis *)
(* range computed by ui for every frame.                                   *)
(***************************************************************************)
EXTENDS Integers, Sequences, FiniteSets, TLC

(***************************************************************************)
(* Bounds of the model.                                                    *)
(***************************************************************************)
\* the largest number of daily entries a fetched forecast holds
MaxDays == 2
\* the largest number of frames a run draws before the model stops it
MaxFrames == 2

(***************************************************************************)
(* f64.  A value is modelled by an integer: n with |n| < F64_MAX is the    *)
(* number n (exactly representable, and n +/- 5.0 is exact); F64_MAX and   *)
(* F64_MIN stand for f64::MAX = 1.797e308 and f64::MIN = -f64::MAX, whose  *)
(* unit in the last place is 2^971, so that adding or subtracting 5.0      *)
(* rounds back to the same value.  The order of the integers is the order  *)
(* of the values they stand for.                                           *)
(***************************************************************************)
F64_MAX == 1000000
F64_MIN == -F64_MAX

\* x + y for the y = 5.0 of ui, rounded to nearest
F64Add(x, y) == IF x = F64_MAX \/ x = F64_MIN THEN x ELSE x + y

\* x - y for the y = 5.0 of ui, rounded to nearest
F64Sub(x, y) == IF x = F64_MAX \/ x = F64_MIN THEN x ELSE x - y

\* f64::min
F64Min(a, b) == IF b < a THEN b ELSE a

\* f64::max
F64Max(a, b) == IF b > a THEN b ELSE a

I32_MAX == 2147483647
I32_MIN == (-I32_MAX) - 1

\* `x as i32`: truncation, saturating at the ends of i32
AsI32(x) ==
    IF x >= I32_MAX \/ x = F64_MAX THEN I32_MAX
    ELSE IF x = F64_MIN THEN I32_MIN
    ELSE x

(***************************************************************************)
(* The forecast a fetch can return (open_meteo_rs::forecast::ForecastResult*)
(* as main.rs reads it: daily, each entry's date and values).              *)
(***************************************************************************)
\* Option<T>
None == [some |-> FALSE]
Some(x) == [some |-> TRUE, v |-> x]

\* the dates of the entries (chrono::NaiveDate)
Dates ==
    { [year |-> 2024, month |-> 8, day |-> 2],
      [year |-> 2024, month |-> 8, day |-> 3] }

\* the temperatures the service can report, as f64
Temps == { -3, 75, F64_MAX }

\* serde_json::Value, the `value` of a ForecastResultItem
JsonNull == [kind |-> "Null"]
JsonNumber(n) == [kind |-> "Number", n |-> n]

\* serde_json::Value::as_f64
as_f64(value) == IF value.kind = "Number" THEN Some(value.n) ELSE None

\* the `values` maps of a daily entry: field name -> item
ValueMaps ==
    LET other == [unit |-> "mm", value |-> JsonNumber(9)]
        temp(val) == [unit |-> "F", value |-> val]
    IN  { <<>> }
        \cup { [f \in {"precipitation_sum"} |-> other] }
        \cup { [f \in {"temperature_2m_max", "precipitation_sum"} |->
                    IF f = "temperature_2m_max" THEN temp(val) ELSE other] :
               val \in {JsonNull} \cup {JsonNumber(t) : t \in Temps} }

\* HashMap::get
Get(map, key) == IF key \in DOMAIN map THEN Some(map[key]) ELSE None

DailyEntries == [date : Dates, values : ValueMaps]

SeqsUpTo(S, n) == UNION { [1..k -> S] : k \in 0..n }

\* every ForecastResult of at most MaxDays daily entries
Forecasts ==
    { [daily |-> None] }
    \cup { [daily |-> Some(d)] : d \in SeqsUpTo(DailyEntries, MaxDays) }

(***************************************************************************)
(* extract_temperature_data                                                *)
(***************************************************************************)
\* the closure of the map: one (date, temp) pair of one entry
ExtractEntry(entry) ==
    LET item == Get(entry.values, "temperature_2m_max")
        num == IF item.some THEN as_f64(item.v.value) ELSE None
        temp == IF num.some THEN num.v ELSE 0
    IN  <<entry.date, temp>>

\* extract_temperature_data dropping the entries that lack the field
extract_skipping_missing(forecast) ==
    IF forecast.daily.some
    THEN LET kept == SelectSeq(forecast.daily.v,
                         LAMBDA e : "temperature_2m_max" \in DOMAIN e.values)
         IN  [i \in 1..Len(kept) |-> ExtractEntry(kept[i])]
    ELSE <<>>

extract_temperature_data(forecast) ==
    IF forecast.daily.some
    THEN [i \in 1..Len(forecast.daily.v) |-> ExtractEntry(forecast.daily.v[i])]
    ELSE <<>>

(***************************************************************************)
(* ui: what one frame is drawn from                                        *)
(***************************************************************************)
margin == 5

\* NaiveDate::format("%m/%d")
FormatMonthDay(date) == <<date.month, date.day>>

\* the fold with min and max exchanged in its closure
RECURSIVE FoldMinMaxSwapped(_, _, _)
FoldMinMaxSwapped(temp_data, i, acc) ==
    IF i > Len(temp_data) THEN acc
    ELSE FoldMinMaxSwapped(temp_data, i + 1,
                           <<F64Max(acc[1], temp_data[i][2]),
                             F64Min(acc[2], temp_data[i][2])>>)

\* the fold of ui over the series, from (f64::MAX, f64::MIN)
RECURSIVE FoldMinMax(_, _, _)
FoldMinMax(temp_data, i, acc) ==
    IF i > Len(temp_data) THEN acc
    ELSE FoldMinMax(temp_data, i + 1,
                    <<F64Min(acc[1], temp_data[i][2]),
                      F64Max(acc[2], temp_data[i][2])>>)

ui(res) ==
    LET temp_data == extract_temperature_data(res)
        chart_data == [i \in 1..Len(temp_data) |-> <<i - 1, temp_data[i][2]>>]
        x_labels == [i \in 1..Len(temp_data) |-> FormatMonthDay(temp_data[i][1])]
        mm == FoldMinMax(temp_data, 1, <<F64_MAX, F64_MIN>>)
        y_bounds == <<F64Sub(mm[1], margin), F64Add(mm[2], margin)>>
    IN  [ widget |-> "Chart",
          temp_data |-> temp_data,
          chart_data |-> chart_data,
          x_labels |-> x_labels,
          x_bounds |-> <<0, Len(chart_data)>>,
          min_temp |-> mm[1],
          max_temp |-> mm[2],
          y_bounds |-> y_bounds,
          y_labels |-> [from |-> AsI32(y_bounds[1]), to |-> AsI32(y_bounds[2]),
                        step |-> 5] ]

(***************************************************************************)
(* handle_events: what one poll of the input source can deliver            *)
(***************************************************************************)
KeyEventKinds == {"Press", "Repeat", "Release"}
KeyCodes == {"Char(q)", "Char(x)", "Enter"}

\* crossterm::event::Event: key events and the others
Events ==
    [type : {"Key"}, kind : KeyEventKinds, code : KeyCodes]
    \cup [type : {"Resize", "Mouse"}, kind : {"-"}, code : {"-"}]

NoEvent == [type |-> "-", kind |-> "-", code |-> "-"]

\* the outcomes of event::poll(50 ms) and, when it reports an event, event::read
PollOutcomes ==
    { [poll |-> "Err", read |-> "-", event |-> NoEvent],
      [poll |-> "Timeout", read |-> "-", event |-> NoEvent],
      [poll |-> "Ready", read |-> "Err", event |-> NoEvent] }
    \cup { [poll |-> "Ready", read |-> "Ok", event |-> e] : e \in Events }

NoPoll == [poll |-> "-", read |-> "-", event |-> NoEvent]

\* io::Result<bool>
Ok(b) == [ok |-> TRUE, v |-> b]
Err == [ok |-> FALSE, v |-> FALSE]

\* handle_events comparing with the wrong key code
handle_events_wrong_key(o) ==
    IF o.poll = "Err" THEN Err
    ELSE IF o.poll = "Ready"
    THEN IF o.read = "Err" THEN Err
         ELSE IF o.event.type = "Key"
                 /\ o.event.kind = "Press" /\ o.event.code = "Char(x)"
              THEN Ok(TRUE)
              ELSE Ok(FALSE)
    ELSE Ok(FALSE)

\* handle_events without the test of key.kind
handle_events_any_kind(o) ==
    IF o.poll = "Err" THEN Err
    ELSE IF o.poll = "Ready"
    THEN IF o.read = "Err" THEN Err
         ELSE IF o.event.type = "Key" /\ o.event.code = "Char(q)"
              THEN Ok(TRUE)
              ELSE Ok(FALSE)
    ELSE Ok(FALSE)

handle_events(o) ==
    IF o.poll = "Err" THEN Err
    ELSE IF o.poll = "Ready"
    THEN IF o.read = "Err" THEN Err
         ELSE IF o.event.type = "Key"
                 /\ o.event.kind = "Press" /\ o.event.code = "Char(q)"
              THEN Ok(TRUE)
              ELSE Ok(FALSE)
    ELSE Ok(FALSE)

(***************************************************************************)
(* main                                                                    *)
(***************************************************************************)
VARIABLES
    pc,           \* the statement of main that runs next
    raw_mode,     \* the terminal is in raw mode
    alt_screen,   \* the terminal shows the alternate screen
    res,          \* the fetched ForecastResult, None until it is bound
    should_quit,  \* main's loop variable
    ret,          \* what main returned and from which line
    frames,       \* the frames drawn so far, oldest first
    fetches,      \* the outcome of every call of client.forecast so far
    polls,        \* the calls of handle_events so far
    last_poll     \* what the latest call of handle_events was delivered

vars == <<pc, raw_mode, alt_screen, res, should_quit, ret, frames, fetches,
          polls, last_poll>>

NotReturned == [kind |-> "-", line |-> 0]
Returned(kind, line) == [kind |-> kind, line |-> line]

Init ==
    /\ pc = "enable_raw_mode"
    /\ raw_mode = FALSE
    /\ alt_screen = FALSE
    /\ res = None
    /\ should_quit = FALSE
    /\ ret = NotReturned
    /\ frames = <<>>
    /\ fetches = <<>>
    /\ polls = 0
    /\ last_poll = NoPoll

\* `?` on an Err: main returns it at once
Propagate(line) ==
    /\ pc' = "returned"
    /\ ret' = Returned("Err", line)

\* enable_raw_mode()?
EnableRawMode ==
    /\ pc = "enable_raw_mode"
    /\ \/ /\ raw_mode' = TRUE
          /\ pc' = "enter_alternate_screen"
          /\ ret' = ret
       \/ /\ Propagate(55)
          /\ raw_mode' = raw_mode
    /\ UNCHANGED <<alt_screen, res, should_quit, frames, fetches, polls, last_poll>>

\* stdout().execute(EnterAlternateScreen)?
EnterAlternateScreen ==
    /\ pc = "enter_alternate_screen"
    /\ \/ /\ alt_screen' = TRUE
          /\ pc' = "terminal_new"
          /\ ret' = ret
       \/ /\ Propagate(56)
          /\ alt_screen' = alt_screen
    /\ UNCHANGED <<raw_mode, res, should_quit, frames, fetches, polls, last_poll>>

\* Terminal::new(CrosstermBackend::new(stdout()))?
TerminalNew ==
    /\ pc = "terminal_new"
    /\ \/ /\ pc' = "forecast"
          /\ ret' = ret
       \/ Propagate(57)
    /\ UNCHANGED <<raw_mode, alt_screen, res, should_quit, frames, fetches,
                   polls, last_poll>>

\* client.forecast(opts).await is Ok(forecast); then `let mut should_quit = false`
FetchOk ==
    /\ pc = "forecast"
    /\ \E forecast \in Forecasts : res' = Some(forecast)
    /\ fetches' = Append(fetches, "Ok")
    /\ should_quit' = FALSE
    /\ pc' = "while"
    /\ UNCHANGED <<raw_mode, alt_screen, ret, frames, polls, last_poll>>

\* a failed fetch that goes on into the loop with an empty forecast
FetchErrDegraded ==
    /\ pc = "forecast"
    /\ fetches' = Append(fetches, "Err")
    /\ res' = Some([daily |-> None])
    /\ should_quit' = FALSE
    /\ pc' = "while"
    /\ UNCHANGED <<raw_mode, alt_screen, ret, frames, polls, last_poll>>

\* a failed fetch that is tried again
FetchErrRetry ==
    /\ pc = "forecast"
    /\ fetches' = Append(fetches, "Err")
    /\ pc' = "forecast"
    /\ UNCHANGED <<raw_mode, alt_screen, res, should_quit, ret, frames, polls,
                   last_poll>>

\* client.forecast(opts).await is Err(e): main returns the io::Error
FetchErr ==
    /\ pc = "forecast"
    /\ fetches' = Append(fetches, "Err")
    /\ pc' = "returned"
    /\ ret' = Returned("Err", 81)
    /\ UNCHANGED <<raw_mode, alt_screen, res, should_quit, frames, polls, last_poll>>

\* a loop that polls before it draws
LoopCheckPollFirst ==
    /\ pc = "while"
    /\ IF should_quit
       THEN pc' = "disable_raw_mode"
       ELSE /\ Len(frames) < MaxFrames
            /\ pc' = "handle_events"
    /\ UNCHANGED <<raw_mode, alt_screen, res, should_quit, ret, frames, fetches,
                   polls, last_poll>>

\* while !should_quit (a run is followed for at most MaxFrames frames)
LoopCheck ==
    /\ pc = "while"
    /\ IF should_quit
       THEN pc' = "disable_raw_mode"
       ELSE /\ Len(frames) < MaxFrames
            /\ pc' = "draw"
    /\ UNCHANGED <<raw_mode, alt_screen, res, should_quit, ret, frames, fetches,
                   polls, last_poll>>

\* a draw that takes the first daily entry out of the forecast it draws
DrawConsuming ==
    /\ pc = "draw"
    /\ \/ /\ frames' = Append(frames, ui(res.v))
          /\ res' = IF res.v.daily.some /\ Len(res.v.daily.v) > 0
                    THEN Some([daily |-> Some(Tail(res.v.daily.v))])
                    ELSE res
          /\ pc' = "handle_events"
          /\ ret' = ret
       \/ /\ Propagate(87)
          /\ frames' = frames
          /\ res' = res
    /\ UNCHANGED <<raw_mode, alt_screen, should_quit, fetches, polls, last_poll>>

\* terminal.draw(|f| ui(f, &res))?
Draw ==
    /\ pc = "draw"
    /\ \/ /\ frames' = Append(frames, ui(res.v))
          /\ pc' = "handle_events"
          /\ ret' = ret
       \/ /\ Propagate(87)
          /\ frames' = frames
    /\ UNCHANGED <<raw_mode, alt_screen, res, should_quit, fetches, polls, last_poll>>

\* should_quit = handle_events()?
HandleEvents ==
    /\ pc = "handle_events"
    /\ \E o \in PollOutcomes :
          /\ last_poll' = o
          /\ IF handle_events(o).ok
             THEN /\ should_quit' = handle_events(o).v
                  /\ pc' = "while"
                  /\ ret' = ret
             ELSE /\ Propagate(88)
                  /\ should_quit' = should_quit
    /\ polls' = polls + 1
    /\ UNCHANGED <<raw_mode, alt_screen, res, frames, fetches>>

\* disable_raw_mode()?
DisableRawMode ==
    /\ pc = "disable_raw_mode"
    /\ \/ /\ raw_mode' = FALSE
          /\ pc' = "leave_alternate_screen"
          /\ ret' = ret
       \/ /\ Propagate(92)
          /\ raw_mode' = raw_mode
    /\ UNCHANGED <<alt_screen, res, should_quit, frames, fetches, polls, last_poll>>

\* stdout().execute(LeaveAlternateScreen)?; Ok(())
LeaveAlternateScreen ==
    /\ pc = "leave_alternate_screen"
    /\ \/ /\ alt_screen' = FALSE
          /\ pc' = "returned"
          /\ ret' = Returned("Ok", 95)
       \/ /\ Propagate(93)
          /\ alt_screen' = alt_screen
    /\ UNCHANGED <<raw_mode, res, should_quit, frames, fetches, polls, last_poll>>

Next ==
    \/ EnableRawMode
    \/ EnterAlternateScreen
    \/ TerminalNew
    \/ FetchOk
    \/ FetchErr
    \/ LoopCheck
    \/ Draw
    \/ HandleEvents
    \/ DisableRawMode
    \/ LeaveAlternateScreen

Spec == Init /\ [][Next]_vars

(***************************************************************************)
(* Properties                                                              *)
(***************************************************************************)
Range(seq) == { seq[i] : i \in 1..Len(seq) }

\* the latest poll delivered a key event of kind Press with code 'q'
IsQuitKey(o) ==
    /\ o.poll = "Ready" /\ o.read = "Ok"
    /\ o.event.type = "Key" /\ o.event.kind = "Press" /\ o.event.code = "Char(q)"

\* a poll that timed out, or delivered an event that is not the quit key
IsOtherOutcome(o) ==
    \/ o.poll = "Timeout"
    \/ /\ o.poll = "Ready" /\ o.read = "Ok"
       /\ ~(o.event.type = "Key" /\ o.event.kind = "Press"
            /\ o.event.code = "Char(q)")

\* the number of daily entries of a forecast
DailyCount(forecast) == IF forecast.daily.some THEN Len(forecast.daily.v) ELSE 0

\* the values of a series
SeriesValues(temp_data) == { temp_data[i][2] : i \in 1..Len(temp_data) }

\* a value whose distance to its neighbours in f64 is below the margin
InExactRange(x) == x # F64_MAX /\ x # F64_MIN

\* min_temp and max_temp of a frame are the extrema of its series
ExtremaOf(f) ==
    /\ f.min_temp \in SeriesValues(f.temp_data)
    /\ f.max_temp \in SeriesValues(f.temp_data)
    /\ \A v \in SeriesValues(f.temp_data) : f.min_temp <= v /\ v <= f.max_temp

-----------------------------------------------------------------------------
\* C1: when main returns after raw mode and the alternate screen were
\* entered (fetch failure at line 81, a draw error at 87, a poll or read
\* error at 88, the normal quit at 95), raw mode is disabled and the
\* alternate screen is left.
C1_TerminalRestoredOnExit ==
    (pc = "returned" /\ ret.line \in {81, 87, 88, 95})
        => (~raw_mode /\ ~alt_screen)

-----------------------------------------------------------------------------
\* C2: once a poll has delivered the quit key, no step draws a frame or
\* reaches the draw statement, and the loop-condition check that follows
\* leaves the loop.
C2_NoDrawAfterQuit ==
    [][ IsQuitKey(last_poll) =>
            /\ frames' = frames
            /\ pc' # "draw"
            /\ (pc = "while" => pc' = "disable_raw_mode") ]_vars

\* the quit key arrived in the second poll and main returned Ok
C2_Witness ==
    /\ IsQuitKey(last_poll)
    /\ pc = "returned" /\ ret.kind = "Ok"
    /\ Len(frames) = 2 /\ polls = 2

-----------------------------------------------------------------------------
\* C3 as stated: a run whose fetch failed has drawn at least one frame by
\* the time main returns.
C3_FailedFetchStillDraws ==
    ("Err" \in Range(fetches) /\ pc = "returned") => Len(frames) >= 1

\* C3 amended: a failed fetch ends the run at once, main returning the error
\* of line 81 with no frame drawn and no poll made; the loop is entered only
\* after a fetch that succeeded.
C3_FailedFetchEndsRun ==
    /\ "Err" \in Range(fetches) =>
          /\ pc = "returned" /\ ret = Returned("Err", 81)
          /\ frames = <<>> /\ polls = 0
    /\ pc \in {"while", "draw", "handle_events"} =>
          fetches = <<"Ok">> /\ res.some

\* the fetch failed and main has returned
C3_Witness == fetches = <<"Err">> /\ pc = "returned"

-----------------------------------------------------------------------------
\* C4: when daily is present with n entries every frame's series has n
\* pairs, the i-th being the i-th entry's date with its temperature_2m_max
\* number, or with 0.0 when the entry has no such field.
C4_ExtractOneToOne ==
    (res.some /\ res.v.daily.some) =>
        \A k \in 1..Len(frames) :
            LET daily == res.v.daily.v
                temp_data == frames[k].temp_data
            IN  /\ Len(temp_data) = Len(daily)
                /\ \A i \in 1..Len(daily) :
                      /\ temp_data[i][1] = daily[i].date
                      /\ "temperature_2m_max" \notin DOMAIN daily[i].values
                            => temp_data[i][2] = 0
                      /\ ( /\ "temperature_2m_max" \in DOMAIN daily[i].values
                           /\ daily[i].values["temperature_2m_max"].value.kind
                                  = "Number" )
                            => temp_data[i][2] =
                                 daily[i].values["temperature_2m_max"].value.n

\* a frame was drawn from two entries, the first (August 3) without the
\* field and the second (August 2) with 75
C4_Witness ==
    /\ Len(frames) >= 1
    /\ res.some /\ res.v.daily.some /\ Len(res.v.daily.v) = 2
    /\ res.v.daily.v[1].date.day = 3
    /\ "temperature_2m_max" \notin DOMAIN res.v.daily.v[1].values
    /\ res.v.daily.v[2].date.day = 2
    /\ "temperature_2m_max" \in DOMAIN res.v.daily.v[2].values
    /\ res.v.daily.v[2].values["temperature_2m_max"].value = JsonNumber(75)

-----------------------------------------------------------------------------
\* C5: a forecast with no daily entry gives every frame the empty series,
\* and such a frame is a no-data placeholder or has a proper default range
\* for its y axis, not one folded from the empty series.
C5_EmptySeriesSpecialCased ==
    (res.some /\ DailyCount(res.v) = 0) =>
        \A k \in 1..Len(frames) :
            /\ frames[k].temp_data = <<>>
            /\ \/ frames[k].widget = "NoData"
               \/ frames[k].y_bounds[1] < frames[k].y_bounds[2]

-----------------------------------------------------------------------------
\* C6 as stated: for a non-empty series min_temp and max_temp are its
\* extrema, the y bounds lie a margin below min_temp and a margin above
\* max_temp, and the lower bound is below the upper one.
C6_AxisRangePadded ==
    \A k \in 1..Len(frames) :
        LET f == frames[k]
        IN  f.temp_data # <<>> =>
                /\ ExtremaOf(f)
                /\ f.y_bounds[1] < f.min_temp
                /\ f.max_temp < f.y_bounds[2]
                /\ f.y_bounds[1] < f.y_bounds[2]

\* C6 amended: for a non-empty series min_temp and max_temp are its extrema
\* and the y bounds enclose them; a bound is exactly a margin away from its
\* extremum when the extremum is small enough for the f64 sum to be exact,
\* and the lower bound is below the upper one when both are.
C6_AxisRangeInF64 ==
    \A k \in 1..Len(frames) :
        LET f == frames[k]
        IN  f.temp_data # <<>> =>
                /\ ExtremaOf(f)
                /\ f.y_bounds[1] <= f.min_temp
                /\ f.max_temp <= f.y_bounds[2]
                /\ InExactRange(f.min_temp) => f.y_bounds[1] = f.min_temp - margin
                /\ InExactRange(f.max_temp) => f.y_bounds[2] = f.max_temp + margin
                /\ (InExactRange(f.min_temp) /\ InExactRange(f.max_temp))
                      => f.y_bounds[1] < f.y_bounds[2]

\* a frame was drawn from the series 75, -3
C6_Witness ==
    \E k \in 1..Len(frames) :
        /\ Len(frames[k].temp_data) = 2
        /\ frames[k].temp_data[1][2] = 75
        /\ frames[k].temp_data[2][2] = -3
        /\ frames[k].y_bounds = <<-8, 80>>

-----------------------------------------------------------------------------
\* C7: client.forecast is called at most once in a run, and exactly once
\* has been by the time the loop runs.
C7_FetchAtMostOnce ==
    /\ Len(fetches) <= 1
    /\ pc \in {"while", "draw", "handle_events", "disable_raw_mode",
               "leave_alternate_screen"} => Len(fetches) = 1

\* the loop has gone round twice after the one fetch
C7_Witness == Len(fetches) = 1 /\ polls = 2 /\ Len(frames) = 2

-----------------------------------------------------------------------------
\* C8: handle_events makes should_quit true on the quit key and false on a
\* timeout, a non-key event, another key or a 'q' that is not a Press; with
\* should_quit false the loop check goes on to the draw, and it leaves the
\* loop only when the latest poll delivered the quit key.
C8_OnlyQuitKeyLeaves ==
    [][ /\ pc = "handle_events" =>
              /\ IsQuitKey(last_poll') => (should_quit' /\ pc' = "while")
              /\ IsOtherOutcome(last_poll') => (~should_quit' /\ pc' = "while")
        /\ (pc = "while" /\ ~should_quit) => pc' = "draw"
        /\ (pc = "while" /\ pc' = "disable_raw_mode") => IsQuitKey(last_poll)
      ]_vars

\* a release of 'q' was polled and the loop has drawn again
C8_Witness ==
    /\ last_poll.event = [type |-> "Key", kind |-> "Release", code |-> "Char(q)"]
    /\ polls = 1 /\ Len(frames) = 2

-----------------------------------------------------------------------------
\* C9: once bound the forecast is never changed, every frame has the series
\* of the first frame, and that series is the extraction of the forecast.
C9_ForecastReadOnly ==
    /\ [][res.some => res' = res]_vars
    /\ [](\A k \in 1..Len(frames) :
            /\ frames[k].temp_data = frames[1].temp_data
            /\ frames[k].temp_data = extract_temperature_data(res.v))

\* two frames of a non-empty series, with a poll between them
C9_Witness ==
    /\ Len(frames) = 2 /\ polls >= 1
    /\ Len(frames[1].temp_data) = 2

-----------------------------------------------------------------------------
\* C10: no frame precedes the fetch; the frames drawn are as many as the
\* polls made, or one more: one more exactly while the poll of the
\* iteration is still to come, and as many when the loop has been left.
C10_DrawPollAlternate ==
    /\ Len(frames) > 0 => (fetches = <<"Ok">> /\ res.some)
    /\ Len(frames) = polls \/ Len(frames) = polls + 1
    /\ pc = "handle_events" <=> Len(frames) = polls + 1
    /\ pc \in {"disable_raw_mode", "leave_alternate_screen"} =>
          (Len(frames) = polls /\ polls >= 1)
    /\ (pc = "returned" /\ ret.line \in {92, 93, 95}) =>
          (Len(frames) = polls /\ polls >= 1)

\* the loop was left on quit after two iterations
C10_Witness ==
    /\ pc = "disable_raw_mode"
    /\ Len(frames) = 2 /\ polls = 2

====
